---- MODULE Spec2Model ----
(***************************************************************************)
(* A model of plugin-src/print.ts: the %printf text-node renderer of the   *)
(* figma-variable-macros plugin.                                           *)
(*                                                                         *)
(* JavaScript strings are modelled as sequences of one-character strings,  *)
(* so that includes / replaceAll / match / trim and the destructuring of a *)
(* string into its characters are computed, not assumed.                   *)
(***************************************************************************)
EXTENDS Integers, Sequences, FiniteSets

(***************************************************************************)
(* Bounds of the model.                                                    *)
(***************************************************************************)
\* Longest page (number of scene nodes) the batch is run on.
MaxNodes == 2
\* Number of times the command is invoked on the same page.
MaxRuns == 2
\* Number of variables of the directories the evaluator is applied to.
NumEvalVars == 3

(***************************************************************************)
(* JavaScript values.                                                      *)
(***************************************************************************)
JSUndefined == [kind |-> "undefined"]
JSNumber(n) == [kind |-> "number", num |-> n]
JSString(s) == [kind |-> "string", str |-> s]
JSBoolean(b) == [kind |-> "boolean", bool |-> b]
JSObject(f) == [kind |-> "object", fields |-> f]

\* The plugin API's value shapes (VariableValue = boolean | string | number
\* | RGB | RGBA | VariableAlias).
RGBAValue(r, g, b, a) == JSObject([r |-> r, g |-> g, b |-> b, a |-> a])
RGBValue(r, g, b) == JSObject([r |-> r, g |-> g, b |-> b])
AliasValue(id) == JSObject([type |-> "VARIABLE_ALIAS", id |-> id])

\* !value
Falsy(v) ==
    \/ v.kind = "undefined"
    \/ (v.kind = "number" /\ v.num = 0)
    \/ (v.kind = "string" /\ v.str = <<>>)
    \/ (v.kind = "boolean" /\ ~v.bool)

\* key in value, for an object
HasKey(v, k) == k \in DOMAIN v.fields

(***************************************************************************)
(* JavaScript string operations.                                           *)
(***************************************************************************)
\* s.includes(sub)
Includes(s, sub) ==
    \E i \in 1..(Len(s) - Len(sub) + 1) : SubSeq(s, i, i + Len(sub) - 1) = sub

\* s.startsWith(p)
StartsWith(s, p) == Len(s) >= Len(p) /\ SubSeq(s, 1, Len(p)) = p

\* s.replaceAll(pat, rep), pat a non-empty string: occurrences are replaced
\* left to right, without overlap, and the replacement is not rescanned.
RECURSIVE ReplaceAll(_, _, _)
ReplaceAll(s, pat, rep) ==
    IF Len(s) < Len(pat) THEN s
    ELSE IF SubSeq(s, 1, Len(pat)) = pat
         THEN rep \o ReplaceAll(SubSeq(s, Len(pat) + 1, Len(s)), pat, rep)
         ELSE <<s[1]>> \o ReplaceAll(Tail(s), pat, rep)

IsSpace(c) == c \in {" ", "\t", "\n"}

\* s.trim()
RECURSIVE TrimStart(_)
TrimStart(s) == IF s # <<>> /\ IsSpace(Head(s)) THEN TrimStart(Tail(s)) ELSE s

RECURSIVE TrimEnd(_)
TrimEnd(s) ==
    IF s # <<>> /\ IsSpace(s[Len(s)]) THEN TrimEnd(SubSeq(s, 1, Len(s) - 1)) ELSE s

Trim(s) == TrimEnd(TrimStart(s))

Digit(d) == <<"0", "1", "2", "3", "4", "5", "6", "7", "8", "9">>[d + 1]

\* Number.prototype.toString() of a non-negative integer
RECURSIVE NatToString(_)
NatToString(n) ==
    IF n < 10 THEN <<Digit(n)>> ELSE NatToString(n \div 10) \o <<Digit(n % 10)>>

HexDigit(d) ==
    <<"0", "1", "2", "3", "4", "5", "6", "7", "8", "9", "a", "b", "c", "d", "e", "f">>[d + 1]

\* A channel 0..255 as two lowercase hex digits
Hex2(n) == <<HexDigit(n \div 16), HexDigit(n % 16)>>


(***************************************************************************)
(* State.                                                                  *)
(***************************************************************************)
VARIABLES
    localVariables,     \* figma.variables: the host's variables, in order
    nodes,              \* figma.currentPage: the scene nodes, in order
    pc,                 \* printVariablesFormatted: idle / loop / done / aborted
    variableMap,        \* name -> Variable, built at the start of a run
    textNodesToRender,  \* indices into nodes of the candidate text nodes
    idx,                \* position of the for-of loop in textNodesToRender
    printedCount,       \* the rendered counter
    notifications,      \* the counts passed to figma.notify, in order
    error,              \* the uncaught error of the run, "" when none
    run,                \* invocations of the command so far
    written,            \* history: the writes of this run, [node, text]
    calls,              \* history: variableResolver invocations of this run
    outcomes,           \* history: the result of every finished run
    startTexts,         \* history: the nodes' texts when the run started
    evPc,               \* evaluateVariable: idle / call / returned / threw
    evVariable,         \* evaluateVariable: the variable of the current call
    evModeId,           \* evaluateVariable: modeId
    evStart,            \* history: the variable of the outermost call
    evResult,           \* evaluateVariable: the value returned
    rsIn,               \* variableResolver applied alone: its arguments
    rsOut               \* variableResolver applied alone: its outcome

batchVars ==
    <<localVariables, nodes, pc, variableMap, textNodesToRender, idx,
      printedCount, notifications, error, run, written, calls, outcomes,
      startTexts>>
evalVars == <<evPc, evVariable, evModeId, evStart, evResult>>
resolverVars == <<rsIn, rsOut>>
vars == <<batchVars, evalVars, resolverVars>>

(***************************************************************************)
(* Outcomes of a call: a returned value or a thrown error.                 *)
(***************************************************************************)
Return(v) == [threw |-> FALSE, val |-> v, err |-> ""]
Throw(e) == [threw |-> TRUE, val |-> <<>>, err |-> e]

TypeError == "TypeError"
NotFoundError == "Variable not found"
NotAnObjectError == "Variable value is not an object"
NotRGBAError == "Variable value is not an RGBA object"
ResolverNotFoundError == "Variable resolver not found"
FontLoadError == "font could not be loaded"

(***************************************************************************)
(* The host: figma.variables.                                              *)
(***************************************************************************)
Null == [kind |-> "null"]

Range(f) == {f[x] : x \in DOMAIN f}

\* figma.variables.getVariableById(id): the variable, or null
getVariableById(id) ==
    IF \E v \in Range(localVariables) : v.id = id
    THEN CHOOSE v \in Range(localVariables) : v.id = id
    ELSE Null

\* variable.valuesByMode[modeId]: undefined for a key the object lacks
ValueAt(variable, modeId) ==
    IF modeId \in DOMAIN variable.valuesByMode
    THEN variable.valuesByMode[modeId]
    ELSE JSUndefined

\* node.resolvedVariableModes[collectionId], a mode id or undefined; as a
\* property key undefined is the string "undefined"
ModeOf(node, collectionId) ==
    IF collectionId \in DOMAIN node.resolvedVariableModes
    THEN node.resolvedVariableModes[collectionId]
    ELSE "undefined"

(***************************************************************************)
(* print.ts, the module-level functions.                                   *)
(***************************************************************************)
VARIABLE_RESOLVERS ==
    << <<"v">>,
       <<"h", "e", "x">>,
       <<"r", "g", "b", "a">>,
       <<"b", "o", "u", "n", "d">>,
       <<"r">>,
       <<"g">>,
       <<"b">>,
       <<"a">> >>

isVariableAlias(value) ==
    IF Falsy(value) \/ value.kind # "object" \/ ~HasKey(value, "type")
    THEN FALSE
    ELSE value.fields.type = "VARIABLE_ALIAS"

\* getBoundedName(variable, modeId): the name, null, or a TypeError when
\* getVariableById returns null and .name is read from it
getBoundedName(variable, modeId) ==
    LET value == ValueAt(variable, modeId) IN
    IF isVariableAlias(value)
    THEN LET boundVariable == getVariableById(value.fields.id) IN
         IF boundVariable = Null THEN Throw(TypeError)
         ELSE Return(JSString(boundVariable.name))
    ELSE Return(Null)

\* Mutant: the channels are not scaled to 0..255.
getRGBAUnscaled(variableValue) ==
    IF Falsy(variableValue) \/ variableValue.kind # "object"
    THEN Throw(NotAnObjectError)
    ELSE IF /\ HasKey(variableValue, "r")
            /\ HasKey(variableValue, "g")
            /\ HasKey(variableValue, "b")
            /\ HasKey(variableValue, "a")
         THEN Return([r |-> variableValue.fields.r,
                      g |-> variableValue.fields.g,
                      b |-> variableValue.fields.b,
                      a |-> variableValue.fields.a])
         ELSE Throw(NotRGBAError)

\* Lines 156-176
getRGBA(variableValue) ==
    IF Falsy(variableValue) \/ variableValue.kind # "object"
    THEN Throw(NotAnObjectError)
    ELSE IF /\ HasKey(variableValue, "r")
            /\ HasKey(variableValue, "g")
            /\ HasKey(variableValue, "b")
            /\ HasKey(variableValue, "a")
         THEN Return([r |-> variableValue.fields.r * 255,
                      g |-> variableValue.fields.g * 255,
                      b |-> variableValue.fields.b * 255,
                      a |-> variableValue.fields.a])
         ELSE Throw(NotRGBAError)

\* value.toString(): a TypeError on undefined
toString(value) ==
    CASE value.kind = "undefined" -> Throw(TypeError)
      [] value.kind = "number" -> Return(NatToString(value.num))
      [] value.kind = "string" -> Return(value.str)
      [] value.kind = "boolean" ->
            Return(IF value.bool THEN <<"t", "r", "u", "e">>
                   ELSE <<"f", "a", "l", "s", "e">>)
      [] value.kind = "object" ->
            Return(<<"[", "o", "b", "j", "e", "c", "t", " ",
                     "O", "b", "j", "e", "c", "t", "]">>)

\* color2k.rgba(r, g, b, a), for integer channels and alpha
color2k_rgba(r, g, b, a) ==
    <<"r", "g", "b", "a", "(">> \o NatToString(r) \o <<",", " ">>
        \o NatToString(g) \o <<",", " ">> \o NatToString(b) \o <<",", " ">>
        \o NatToString(a) \o <<")">>

\* color2k.toHex(color2k.rgba(r, g, b, a)): the alpha byte only when a < 1
color2k_toHex(r, g, b, a) ==
    <<"#">> \o Hex2(r) \o Hex2(g) \o Hex2(b)
        \o (IF a < 1 THEN Hex2(a * 255) ELSE <<>>)

\* variableResolver(resolver, variableValue), a closure over the node's
\* variable and modeId
variableResolver(resolver, variableValue, variable, modeId) ==
    IF resolver = <<"v">> THEN toString(variableValue)
    ELSE IF resolver = <<"b", "o", "u", "n", "d">>
    THEN LET bounded == getBoundedName(variable, modeId) IN
         IF bounded.threw THEN bounded
         ELSE IF bounded.val = Null THEN Return(<<"N", "/", "A">>)
         ELSE Return(bounded.val.str)
    ELSE LET RGBA == getRGBA(variableValue) IN
         IF RGBA.threw THEN RGBA
         ELSE LET c == RGBA.val IN
              CASE resolver = <<"r", "g", "b", "a">> ->
                       Return(color2k_rgba(c.r, c.g, c.b, c.a))
                [] resolver = <<"h", "e", "x">> ->
                       Return(color2k_toHex(c.r, c.g, c.b, c.a))
                [] resolver = <<"r">> -> Return(NatToString(c.r))
                [] resolver = <<"g">> -> Return(NatToString(c.g))
                [] resolver = <<"b">> -> Return(NatToString(c.b))
                [] resolver = <<"a">> -> Return(NatToString(c.a))
                [] OTHER -> Throw(ResolverNotFoundError)


(***************************************************************************)
(* print.ts, printVariablesFormatted: the pieces of the loop body.         *)
(***************************************************************************)
PRINTF == <<"%", "p", "r", "i", "n", "t", "f">>
PRINTF_OPEN == PRINTF \o <<"(", "\"">>
PRINTF_SEP == <<"\"", ",", " ">>

\* What a dot of the regular expression matches
NoLineBreak(s) == \A k \in 1..Len(s) : s[k] # "\n"

\* Where name has sub at position k
HasAt(name, sub, k) ==
    k >= 1 /\ k + Len(sub) - 1 <= Len(name)
           /\ \A j \in 1..Len(sub) : name[k + j - 1] = sub[j]

\* The ends f of the second group (.*) of a match whose first group ends at
\* e: the separator follows e, the group is name[e+4..f] and ")" follows it.
SecondGroupEnds(name, e) ==
    {f \in (e + Len(PRINTF_SEP))..(Len(name) - 1) :
        /\ name[f + 1] = ")"
        /\ NoLineBreak(SubSeq(name, e + Len(PRINTF_SEP) + 1, f))}

\* The ends e of the first group (.*) of a match that starts at p
FirstGroupEnds(name, p) ==
    {e \in (p + Len(PRINTF_OPEN) - 1)..Len(name) :
        /\ HasAt(name, PRINTF_SEP, e + 1)
        /\ NoLineBreak(SubSeq(name, p + Len(PRINTF_OPEN), e))
        /\ SecondGroupEnds(name, e) # {}}

\* The positions at which /%printf\("(.*)", (.*)\)/ matches name
MatchStarts(name) ==
    {p \in 1..Len(name) :
        HasAt(name, PRINTF_OPEN, p) /\ FirstGroupEnds(name, p) # {}}

Min(S) == CHOOSE x \in S : \A y \in S : x <= y
Max(S) == CHOOSE x \in S : \A y \in S : x >= y

\* name.match(/%printf\("(.*)", (.*)\)/): null, or the two groups of the
\* leftmost match with each greedy group as long as backtracking allows
Match(name) ==
    IF MatchStarts(name) = {} THEN Null
    ELSE LET p == Min(MatchStarts(name))
             e == Max(FirstGroupEnds(name, p))
             f == Max(SecondGroupEnds(name, e))
         IN [g1 |-> SubSeq(name, p + Len(PRINTF_OPEN), e),
             g2 |-> SubSeq(name, e + Len(PRINTF_SEP) + 1, f)]

\* new Map(variables.map((v) => [v.name, v])): the last variable of a name
BuildVariableMap(variables) ==
    [n \in {v.name : v \in Range(variables)} |->
        variables[CHOOSE k \in DOMAIN variables :
                     /\ variables[k].name = n
                     /\ \A j \in DOMAIN variables :
                            variables[j].name = n => j <= k]]

\* Mutant: the lookup is not checked, and the first use of the undefined
\* variable is a TypeError.
getVariableUnchecked(name) ==
    IF name \in DOMAIN variableMap
    THEN Return(variableMap[name])
    ELSE Throw(TypeError)

\* Lines 34-42
getVariable(name) ==
    IF name \in DOMAIN variableMap
    THEN Return(variableMap[name])
    ELSE Throw(NotFoundError)

\* The array pattern [key, value] applied to an element of
\* VARIABLE_RESOLVERS: an element is a string, and the pattern takes its
\* first and second characters (undefined past the end of the string).
DestructureKey(entry) == <<entry[1]>>
DestructureValue(entry) ==
    IF Len(entry) >= 2 THEN JSString(<<entry[2]>>) ELSE JSUndefined

\* VARIABLE_RESOLVERS.filter(([key]) => fstring.includes(`%${key}`))
UsedResolvers(fstring) ==
    LET Used(entry) == Includes(fstring, <<"%">> \o DestructureKey(entry))
    IN SelectSeq(VARIABLE_RESOLVERS, Used)

\* .reduce((acc, [key, value]) =>
\*     acc.replaceAll(`%${key}`, variableResolver(key, value)), fstring)
\* The resolver is called before replaceAll, and its error ends the reduce.
RECURSIVE Reduce(_, _, _, _)
Reduce(entries, acc, variable, modeId) ==
    IF entries = <<>> THEN Return(acc)
    ELSE LET key == DestructureKey(Head(entries))
             value == DestructureValue(Head(entries))
             resolved == variableResolver(key, value, variable, modeId)
         IN IF resolved.threw THEN resolved
            ELSE Reduce(Tail(entries),
                        ReplaceAll(acc, <<"%">> \o key, resolved.val),
                        variable, modeId)

resultString(fstring, variable, modeId) ==
    Reduce(UsedResolvers(fstring), fstring, variable, modeId)

\* History: the variableResolver invocations resultString makes, up to and
\* including the first that throws.
RECURSIVE ResolverCalls(_, _, _)
ResolverCalls(entries, variable, modeId) ==
    IF entries = <<>> THEN <<>>
    ELSE LET key == DestructureKey(Head(entries))
             value == DestructureValue(Head(entries))
             resolved == variableResolver(key, value, variable, modeId)
             call == [resolver |-> key, value |-> value,
                      threw |-> resolved.threw, err |-> resolved.err]
         IN IF resolved.threw THEN <<call>>
            ELSE <<call>> \o ResolverCalls(Tail(entries), variable, modeId)


(***************************************************************************)
(* The documents the batch is run on.                                      *)
(***************************************************************************)
Modes == {"Light", "Dark"}

Variable(id, name, light, dark) ==
    [id |-> id, name |-> name, variableCollectionId |-> "c1",
     valuesByMode |-> [m \in Modes |-> IF m = "Light" THEN light ELSE dark]]

NamePrimary == <<"P", "r", "i", "m", "a", "r", "y">>
NameMissing == <<"M", "i", "s", "s", "i", "n", "g">>

\* Primary is a color; A aliases B, B aliases C, C is a color; N is a
\* number; D aliases a variable that does not exist.
BaseVariables ==
    << Variable(1, NamePrimary, RGBAValue(1, 0, 0, 1), RGBAValue(0, 0, 1, 0)),
       Variable(2, <<"A">>, AliasValue(3), AliasValue(3)),
       Variable(3, <<"B">>, AliasValue(4), JSNumber(5)),
       Variable(4, <<"C">>, RGBAValue(0, 1, 0, 1), RGBAValue(1, 1, 1, 1)),
       Variable(5, <<"N">>, JSNumber(42), JSNumber(7)),
       Variable(6, <<"D">>, AliasValue(99), JSBoolean(TRUE)) >>

\* The same with a second variable named N (the later one wins the map).
Directories ==
    { BaseVariables,
      Append(BaseVariables,
             Variable(7, <<"N">>, RGBAValue(1, 1, 0, 1), AliasValue(5))) }

NodeName(template, varName) ==
    PRINTF_OPEN \o template \o PRINTF_SEP \o varName \o <<")">>

\* fontLoadable: whether figma.loadFontAsync(node.fontName) resolves (it
\* rejects, for one, when the node mixes fonts).
TextNode(name, mode) ==
    [type |-> "TEXT", name |-> name, characters |-> <<"?">>,
     resolvedVariableModes |-> [c \in {"c1"} |-> mode],
     fontLoadable |-> TRUE]

TemplateColor ==
    <<"C", "o", "l", "o", "r", ":", " ", "%", "h", "e", "x", " ",
      "(", "%", "r", "g", "b", "a", ")">>
TemplateBound == <<"%", "b", "o", "u", "n", "d">>
TemplateUnknown == <<"%", "u", "n", "k", "n", "o", "w", "n">>
TemplateHello == <<"%", "h", "e", "l", "l", "o">>
TemplateBare == <<"1", "0", "0", "%">>
TemplateValue == <<"%", "v">>
TemplateChannels == <<"%", "r", ",", "%", "g", ",", "%", "b", ",", "%", "a">>
TemplatePlain == <<"h", "i">>

NodePool ==
    { TextNode(NodeName(TemplateColor, NamePrimary), "Light"),
      TextNode(NodeName(TemplateBound, <<"A">>), "Light"),
      TextNode(NodeName(TemplateBound, <<"N">>), "Dark"),
      TextNode(NodeName(TemplateUnknown, <<"N">>), "Dark"),
      TextNode(NodeName(TemplateHello, <<"N">>), "Light"),
      TextNode(NodeName(TemplateBare, <<"N">>), "Light"),
      TextNode(NodeName(TemplateValue, <<"N">>), "Dark"),
      TextNode(NodeName(TemplateChannels, NamePrimary), "Light"),
      TextNode(NodeName(TemplatePlain, NameMissing), "Light"),
      TextNode(NodeName(<<" ">> \o TemplatePlain \o <<" ">>,
                        <<" ">> \o NamePrimary \o <<" ">>), "Dark"),
      TextNode(PRINTF \o <<"o", "o">>, "Light"),
      TextNode(<<"L", "a", "b", "e", "l">>, "Light"),
      [TextNode(NodeName(TemplatePlain, <<"N">>), "Light")
           EXCEPT !.type = "FRAME"],
      [TextNode(NodeName(TemplatePlain, <<"N">>), "Dark")
           EXCEPT !.fontLoadable = FALSE] }

Pages == UNION {[1..n -> NodePool] : n \in 0..MaxNodes}

(***************************************************************************)
(* printVariablesFormatted as a state machine.                             *)
(***************************************************************************)
IdleEval ==
    /\ evPc = "idle"
    /\ evVariable = Null
    /\ evModeId = "undefined"
    /\ evStart = Null
    /\ evResult = JSUndefined

IdleResolver == rsIn = Null /\ rsOut = Null

IdleBatch ==
    /\ nodes = <<>>
    /\ pc = "idle"
    /\ variableMap = <<>>
    /\ textNodesToRender = <<>>
    /\ idx = 1
    /\ printedCount = 0
    /\ notifications = <<>>
    /\ error = ""
    /\ run = 0
    /\ written = <<>>
    /\ calls = <<>>
    /\ outcomes = <<>>
    /\ startTexts = <<>>

Init ==
    /\ localVariables \in Directories
    /\ nodes \in Pages
    /\ pc = "idle"
    /\ variableMap = <<>>
    /\ textNodesToRender = <<>>
    /\ idx = 1
    /\ printedCount = 0
    /\ notifications = <<>>
    /\ error = ""
    /\ run = 0
    /\ written = <<>>
    /\ calls = <<>>
    /\ outcomes = <<>>
    /\ startTexts = <<>>
    /\ IdleEval
    /\ IdleResolver

\* History: what a run left behind.
Outcome(finalNodes, count, notified, err) ==
    [texts |-> [k \in DOMAIN finalNodes |-> finalNodes[k].characters],
     count |-> count, notified |-> notified, error |-> err]

\* figma.currentPage.findAll(type TEXT and name starts with %printf)
Candidates(page) ==
    LET IsCandidate(k) ==
            page[k].type = "TEXT" /\ StartsWith(page[k].name, PRINTF)
    IN SelectSeq([k \in 1..Len(page) |-> k], IsCandidate)

\* Mutant: the counter outlives the invocation (a module-level counter).
CounterKept(previous) == previous

\* Line 44: let printedCount = 0, local to the invocation
CounterAtStart(previous) == 0

\* Lines 22-47: the command is invoked; the directory and the candidate
\* list are built and the counter starts at 0.
Start ==
    /\ pc \in {"idle", "done", "aborted"}
    /\ run < MaxRuns
    /\ run' = run + 1
    /\ variableMap' = BuildVariableMap(localVariables)
    /\ printedCount' = CounterAtStart(printedCount)
    /\ textNodesToRender' = Candidates(nodes)
    /\ idx' = 1
    /\ pc' = "loop"
    /\ error' = ""
    /\ written' = <<>>
    /\ calls' = <<>>
    /\ startTexts' = [k \in DOMAIN nodes |-> nodes[k].characters]
    /\ UNCHANGED <<localVariables, nodes, notifications, outcomes>>
    /\ UNCHANGED <<evalVars, resolverVars>>

\* An uncaught error leaves the function: nothing after it runs.
Abort(err, newCalls) ==
    /\ pc' = "aborted"
    /\ error' = err
    /\ calls' = calls \o newCalls
    /\ outcomes' = Append(outcomes, Outcome(nodes, printedCount, FALSE, err))
    /\ UNCHANGED <<nodes, idx, printedCount, written>>

\* Mutant: the counter is not incremented after the write.
RenderWithoutCount(n, text, newCalls) ==
    /\ nodes' = [nodes EXCEPT ![n].characters = text]
    /\ printedCount' = printedCount
    /\ written' = Append(written, [node |-> n, text |-> text])
    /\ idx' = idx + 1
    /\ calls' = calls \o newCalls
    /\ UNCHANGED <<pc, error, outcomes>>

\* Lines 75-78: the text is written and the counter incremented.
Render(n, text, newCalls) ==
    /\ nodes' = [nodes EXCEPT ![n].characters = text]
    /\ printedCount' = printedCount + 1
    /\ written' = Append(written, [node |-> n, text |-> text])
    /\ idx' = idx + 1
    /\ calls' = calls \o newCalls
    /\ UNCHANGED <<pc, error, outcomes>>

\* Lines 50-78: one iteration of the for-of loop.
LoopBody ==
    /\ pc = "loop"
    /\ idx <= Len(textNodesToRender)
    /\ LET n == textNodesToRender[idx]
           node == nodes[n]
           matched == Match(node.name)
       IN IF matched = Null
          THEN /\ idx' = idx + 1
               /\ UNCHANGED <<nodes, pc, printedCount, error, written, calls,
                              outcomes>>
          ELSE LET fstring == Trim(matched.g1)
                   varName == Trim(matched.g2)
                   found == getVariable(varName)
               IN IF found.threw
                  THEN Abort(found.err, <<>>)
                  ELSE LET variable == found.val
                           modeId == ModeOf(node, variable.variableCollectionId)
                           result == resultString(fstring, variable, modeId)
                           made == ResolverCalls(UsedResolvers(fstring),
                                                 variable, modeId)
                       IN IF result.threw
                          THEN Abort(result.err, made)
                          ELSE IF ~node.fontLoadable
                          THEN Abort(FontLoadError, made)
                          ELSE Render(n, result.val, made)
    /\ UNCHANGED <<localVariables, variableMap, textNodesToRender,
                   notifications, run, startTexts>>
    /\ UNCHANGED <<evalVars, resolverVars>>

\* Mutant: the notification counts the candidates, not the nodes rendered.
NotifiedCandidates == Len(textNodesToRender)

\* Line 112: the number in `Printed ${printedCount} variables`
NotifiedCount == printedCount

\* Line 112: the loop is over; the count is notified.
Notify ==
    /\ pc = "loop"
    /\ idx > Len(textNodesToRender)
    /\ notifications' = Append(notifications, NotifiedCount)
    /\ pc' = "done"
    /\ outcomes' = Append(outcomes, Outcome(nodes, printedCount, TRUE, ""))
    /\ UNCHANGED <<localVariables, nodes, variableMap, textNodesToRender, idx,
                   printedCount, error, run, written, calls, startTexts>>
    /\ UNCHANGED <<evalVars, resolverVars>>

Next == Start \/ LoopBody \/ Notify

Spec == Init /\ [][Next]_vars


(***************************************************************************)
(* evaluateVariable, applied alone.  Each call of the recursion is a step, *)
(* so that a cyclic chain is a run that never returns.                     *)
(***************************************************************************)
EvalVarIds == 1..NumEvalVars

\* What a variable may hold at a mode: a terminal value of its own, an
\* alias of the next variable (of no variable, for the last one) or an
\* alias of the first variable.
SlotKinds == {"terminal", "next", "first"}

TerminalOf(k, m) ==
    LET mi == IF m = "Light" THEN 1 ELSE 2 IN
    CASE k % 3 = 1 -> JSNumber(10 * k + mi)
      [] k % 3 = 2 -> JSString(<<"s", Digit(k % 10), Digit(mi)>>)
      [] OTHER -> RGBAValue(1, 0, mi - 1, 1)

SlotValue(kind, k, m) ==
    CASE kind = "terminal" -> TerminalOf(k, m)
      [] kind = "next" -> AliasValue(k + 1)
      [] OTHER -> AliasValue(1)

EvalDirectory(kinds) ==
    [k \in EvalVarIds |->
        [id |-> k, name |-> <<"V", Digit(k % 10)>>,
         variableCollectionId |-> "c1",
         valuesByMode |-> [m \in Modes |-> SlotValue(kinds[k][m], k, m)]]]

EvalDirectories ==
    {EvalDirectory(kinds) : kinds \in [EvalVarIds -> [Modes -> SlotKinds]]}

InitEval ==
    /\ localVariables \in EvalDirectories
    /\ evStart \in Range(localVariables)
    /\ evModeId \in Modes
    /\ evVariable = evStart
    /\ evPc = "call"
    /\ evResult = JSUndefined
    /\ IdleBatch
    /\ IdleResolver

\* Mutant: the alias is followed one hop only; the bound variable's value
\* is returned as it is stored.
evaluateOneHop(variable, modeId) ==
    IF variable = Null THEN [op |-> "throw"]
    ELSE LET value == ValueAt(variable, modeId) IN
         IF isVariableAlias(value)
         THEN LET boundVariable == getVariableById(value.fields.id) IN
              IF boundVariable = Null THEN [op |-> "throw"]
              ELSE [op |-> "return", value |-> ValueAt(boundVariable, modeId)]
         ELSE [op |-> "return", value |-> value]

\* Lines 122-131: the body of evaluateVariable(variable, modeId): it
\* returns the value, or calls itself on the bound variable with the same
\* modeId.  Reading valuesByMode of the null that getVariableById returned
\* for an unknown id is a TypeError.
evaluateBody(variable, modeId) ==
    IF variable = Null THEN [op |-> "throw"]
    ELSE LET value == ValueAt(variable, modeId) IN
         IF isVariableAlias(value)
         THEN [op |-> "recurse",
               variable |-> getVariableById(value.fields.id),
               modeId |-> modeId]
         ELSE [op |-> "return", value |-> value]

\* One call of evaluateVariable.
evaluateVariable ==
    /\ evPc = "call"
    /\ LET body == evaluateBody(evVariable, evModeId) IN
       CASE body.op = "throw" ->
                /\ evPc' = "threw"
                /\ UNCHANGED <<evVariable, evModeId, evResult>>
         [] body.op = "recurse" ->
                /\ evVariable' = body.variable
                /\ evModeId' = body.modeId
                /\ UNCHANGED <<evPc, evResult>>
         [] body.op = "return" ->
                /\ evPc' = "returned"
                /\ evResult' = body.value
                /\ UNCHANGED <<evVariable, evModeId>>
    /\ UNCHANGED <<evStart, localVariables>>
    /\ UNCHANGED <<nodes, pc, variableMap, textNodesToRender, idx,
                   printedCount, notifications, error, run, written, calls,
                   outcomes, startTexts>>
    /\ UNCHANGED resolverVars

NextEval == evaluateVariable

\* The recursion is a synchronous call: a call that can run does run.
SpecEval == InitEval /\ [][NextEval]_vars /\ WF_vars(evaluateVariable)

(***************************************************************************)
(* variableResolver, applied alone.                                        *)
(***************************************************************************)
ColorComponents == {0, 1}

ResolverInputs == Range(VARIABLE_RESOLVERS) \cup {<<"h">>, <<"x">>}

ValueInputs ==
    {JSUndefined, JSNumber(0), JSNumber(42), JSString(<<>>), JSString(<<"e">>),
     JSBoolean(FALSE), JSBoolean(TRUE), RGBValue(1, 0, 0), AliasValue(3)}
    \cup {RGBAValue(r, g, b, a) : r, g, b, a \in ColorComponents}

InitResolver ==
    /\ localVariables = BaseVariables
    /\ rsIn \in [resolver : ResolverInputs, variableValue : ValueInputs,
                 variable : Range(BaseVariables),
                 modeId : Modes \cup {"undefined"}]
    /\ rsOut = Null
    /\ IdleBatch
    /\ IdleEval

\* Lines 85-109: one call of variableResolver.
CallResolver ==
    /\ rsOut = Null
    /\ rsOut' = variableResolver(rsIn.resolver, rsIn.variableValue,
                                 rsIn.variable, rsIn.modeId)
    /\ UNCHANGED <<rsIn, batchVars, evalVars>>

NextResolver == CallResolver

SpecResolver == InitResolver /\ [][NextResolver]_vars


(***************************************************************************)
(* Vocabulary of the properties.                                           *)
(***************************************************************************)
Running == pc \in {"loop", "done", "aborted"}

\* The candidate at position j of the batch
CandidateAt(j) == nodes[textNodesToRender[j]]

Parses(node) == Match(node.name) # Null
TemplateOf(node) == Trim(Match(node.name).g1)
VarNameOf(node) == Trim(Match(node.name).g2)
Known(node) == Parses(node) /\ VarNameOf(node) \in DOMAIN variableMap
MissingVariable(node) ==
    Parses(node) /\ VarNameOf(node) \notin DOMAIN variableMap
VariableOf(node) == variableMap[VarNameOf(node)]
ModeIdOf(node) == ModeOf(node, VariableOf(node).variableCollectionId)

\* The batch stopped with an error at position j
AbortedAt(j) == pc = "aborted" /\ j = idx

WrittenNodes == {written[k].node : k \in DOMAIN written}

TokenBound == <<"b", "o", "u", "n", "d">>
Tokens == Range(VARIABLE_RESOLVERS)
ColorTokens == Tokens \ {<<"v">>, TokenBound}
TokenOccurs(template, token) == Includes(template, <<"%">> \o token)

\* The alias chain from variable at modeId reaches a terminal value within
\* fuel hops, through variables that exist.
RECURSIVE ChainTerminates(_, _, _)
ChainTerminates(variable, modeId, fuel) ==
    LET value == ValueAt(variable, modeId) IN
    IF ~isVariableAlias(value) THEN TRUE
    ELSE /\ fuel > 0
         /\ getVariableById(value.fields.id) # Null
         /\ ChainTerminates(getVariableById(value.fields.id), modeId, fuel - 1)

\* The terminal value at the end of such a chain, every hop at modeId
RECURSIVE ChainEnd(_, _, _)
ChainEnd(variable, modeId, fuel) ==
    LET value == ValueAt(variable, modeId) IN
    IF ~isVariableAlias(value) \/ fuel = 0 THEN value
    ELSE ChainEnd(getVariableById(value.fields.id), modeId, fuel - 1)

Acyclic(variable, modeId) ==
    ChainTerminates(variable, modeId, Len(localVariables))
TerminalValue(variable, modeId) ==
    ChainEnd(variable, modeId, Len(localVariables))

\* The Token Resolver's output for a full token name on the terminal value
TokenText(token, variable, modeId) ==
    variableResolver(token, TerminalValue(variable, modeId), variable, modeId)

\* Every token the template names can be resolved for the variable
Resolvable(template, variable, modeId) ==
    /\ Acyclic(variable, modeId)
    /\ \A token \in Tokens :
           TokenOccurs(template, token) =>
               ~TokenText(token, variable, modeId).threw

\* The template with the tokens, in the order of tokens, replaced
RECURSIVE Substituted(_, _, _, _)
Substituted(tokens, acc, variable, modeId) ==
    IF tokens = <<>> THEN acc
    ELSE Substituted(
             Tail(tokens),
             IF TokenOccurs(acc, Head(tokens))
             THEN ReplaceAll(acc, <<"%">> \o Head(tokens),
                             TokenText(Head(tokens), variable, modeId).val)
             ELSE acc,
             variable, modeId)

ExpectedText(node) ==
    Substituted(VARIABLE_RESOLVERS, TemplateOf(node), VariableOf(node),
                ModeIdOf(node))

(***************************************************************************)
(* C1.  A candidate whose name parses to a template and a variable of the  *)
(* directory, and whose tokens can all be resolved, is written the         *)
(* template with every %token replaced, in the order v, hex, rgba, bound,  *)
(* r, g, b, a, by the resolver's text for the variable's terminal value at *)
(* the node's mode; the batch does not fail at it (its font loading).      *)
(***************************************************************************)
C1_SubstitutesTokens ==
    Running =>
        \A j \in 1..Len(textNodesToRender) :
            LET node == CandidateAt(j) IN
            (/\ Known(node)
             /\ node.fontLoadable
             /\ Resolvable(TemplateOf(node), VariableOf(node), ModeIdOf(node)))
            => /\ ~AbortedAt(j)
               /\ j < idx => node.characters = ExpectedText(node)

(***************************************************************************)
(* C4.  A candidate whose template holds no %token of the 8 recognized     *)
(* names (its % signs are bare or start other words) is written its        *)
(* template unchanged, and the batch does not fail at it.                  *)
(***************************************************************************)
NoTokenIn(template) == \A token \in Tokens : ~TokenOccurs(template, token)

\* C4: a template without recognized tokens is written unchanged, without
\* error.
C4_UnrecognizedPercentPassesThrough ==
    Running =>
        \A j \in 1..Len(textNodesToRender) :
            LET node == CandidateAt(j) IN
            (Known(node) /\ node.fontLoadable /\ NoTokenIn(TemplateOf(node)))
            => /\ ~AbortedAt(j)
               /\ j < idx => node.characters = TemplateOf(node)

(***************************************************************************)
(* C5.  A candidate whose template contains %bound renders without error,  *)
(* for a color and for a non-color variable; where %bound is its only      *)
(* token the text is the template with %bound replaced by the name of the  *)
(* variable one alias hop away, or by N/A when the value at the node's     *)
(* mode is not an alias.                                                   *)
(***************************************************************************)
BoundText(variable, modeId) ==
    LET value == ValueAt(variable, modeId) IN
    IF isVariableAlias(value)
    THEN getVariableById(value.fields.id).name
    ELSE <<"N", "/", "A">>

\* The alias at modeId, if any, names a variable that exists
BoundExists(variable, modeId) ==
    LET value == ValueAt(variable, modeId) IN
    isVariableAlias(value) => getVariableById(value.fields.id) # Null

OnlyBound(template) ==
    NoTokenIn(ReplaceAll(template, <<"%">> \o TokenBound, <<" ">>))

\* C5: a template with %bound renders without error, %bound replaced by the
\* one-hop name or N/A.
C5_BoundNeedsNoColor ==
    Running =>
        \A j \in 1..Len(textNodesToRender) :
            LET node == CandidateAt(j) IN
            (/\ Known(node)
             /\ node.fontLoadable
             /\ TokenOccurs(TemplateOf(node), TokenBound)
             /\ BoundExists(VariableOf(node), ModeIdOf(node)))
            => /\ ~AbortedAt(j)
               /\ (j < idx /\ OnlyBound(TemplateOf(node))) =>
                      node.characters =
                          ReplaceAll(TemplateOf(node), <<"%">> \o TokenBound,
                                     BoundText(VariableOf(node), ModeIdOf(node)))

(***************************************************************************)
(* C8.  The resolver is only ever invoked with one of the 8 token names,   *)
(* and so no invocation ends in "Variable resolver not found".             *)
(***************************************************************************)
C8_ResolverOnlyGetsTokens ==
    \A k \in DOMAIN calls :
        /\ calls[k].resolver \in Tokens
        /\ calls[k].err # ResolverNotFoundError


(***************************************************************************)
(* C2.  A candidate that names a variable absent from the directory stops  *)
(* the batch with the not-found error at that candidate: the loop never    *)
(* passes it, no candidate at or after it is written, the candidates       *)
(* written before it keep the text they were written, and no notification  *)
(* is issued for the run.                                                  *)
(***************************************************************************)
RunsNotified == {r \in DOMAIN outcomes : outcomes[r].notified}

\* C2: a missing variable stops the batch at its candidate with the
\* not-found error; nothing at or after it is written, nothing is notified.
C2_MissingVariableAborts ==
    Running =>
        /\ \A j \in 1..Len(textNodesToRender) :
               MissingVariable(CandidateAt(j)) =>
                   /\ j >= idx
                   /\ pc # "done"
                   /\ AbortedAt(j) => error = NotFoundError
        /\ (pc = "aborted" /\ error = NotFoundError) =>
               /\ idx <= Len(textNodesToRender)
               /\ MissingVariable(CandidateAt(idx))
               /\ \A j \in idx..Len(textNodesToRender) :
                      /\ textNodesToRender[j] \notin WrittenNodes
                      /\ CandidateAt(j).characters =
                             startTexts[textNodesToRender[j]]
               /\ \A k \in DOMAIN written :
                      nodes[written[k].node].characters = written[k].text
               /\ Len(notifications) = Cardinality(RunsNotified)
               /\ ~outcomes[Len(outcomes)].notified

\* A batch that wrote a node and then stopped at a missing variable
C2_Witness ==
    /\ pc = "aborted"
    /\ error = NotFoundError
    /\ Len(written) >= 1
    /\ MissingVariable(CandidateAt(idx))

(***************************************************************************)
(* C3.  A candidate whose name does not match the %printf pattern is       *)
(* skipped: the batch does not fail at it, its text is not written and it  *)
(* is not counted; the count notified when the batch completes is the      *)
(* number of nodes whose text was written.                                 *)
(***************************************************************************)
C3_NonMatchingSkipped ==
    Running =>
        /\ \A j \in 1..Len(textNodesToRender) :
               ~Parses(CandidateAt(j)) =>
                   /\ ~AbortedAt(j)
                   /\ textNodesToRender[j] \notin WrittenNodes
                   /\ CandidateAt(j).characters =
                          startTexts[textNodesToRender[j]]
        /\ printedCount <=
               Cardinality({j \in 1..(idx - 1) : Parses(CandidateAt(j))})
        /\ pc = "done" =>
               notifications[Len(notifications)] = Cardinality(WrittenNodes)

\* A completed batch that skipped a candidate and wrote another
C3_Witness ==
    /\ pc = "done"
    /\ Len(written) >= 1
    /\ \E j \in 1..Len(textNodesToRender) : ~Parses(CandidateAt(j))

(***************************************************************************)
(* C9.  Running the batch again over the same nodes and directory ends as  *)
(* the first run did: the same node texts, the same rendered count, the    *)
(* same notification or the same error.                                    *)
(***************************************************************************)
C9_RerunAgrees ==
    \A r \in DOMAIN outcomes : outcomes[r] = outcomes[1]

\* Two finished runs, the second of which wrote a node
C9_Witness ==
    /\ Len(outcomes) >= 2
    /\ outcomes[2].count >= 1
    /\ run >= 2

(***************************************************************************)
(* C10.  A step of the batch changes nothing but the text of the candidate *)
(* the loop is at, and only when its name matched and no error occurred,   *)
(* together with the counter; names, modes and the directory stay as they  *)
(* are; candidates are taken one at a time in order, each written at most  *)
(* once, and the counter is the number of nodes written so far.            *)
(***************************************************************************)
C10_CounterIsWrites ==
    Running =>
        /\ printedCount = Len(written)
        /\ Cardinality(WrittenNodes) = Len(written)
        /\ \A k \in DOMAIN written :
               \E j \in 1..(idx - 1) : textNodesToRender[j] = written[k].node
        /\ \A n \in DOMAIN nodes :
               n \notin WrittenNodes => nodes[n].characters = startTexts[n]

C10_StepFrame ==
    /\ localVariables' = localVariables
    /\ DOMAIN nodes' = DOMAIN nodes
    /\ \A n \in DOMAIN nodes :
           /\ nodes'[n].name = nodes[n].name
           /\ nodes'[n].type = nodes[n].type
           /\ nodes'[n].resolvedVariableModes = nodes[n].resolvedVariableModes
           /\ nodes'[n].fontLoadable = nodes[n].fontLoadable
           /\ (nodes'[n].characters # nodes[n].characters
                  \/ (pc = "loop" /\ Len(written') > Len(written)
                         /\ written'[Len(written')].node = n))
              => /\ pc = "loop" /\ pc' = "loop"
                 /\ idx <= Len(textNodesToRender)
                 /\ n = textNodesToRender[idx]
                 /\ Parses(nodes[n])
                 /\ idx' = idx + 1
                 /\ printedCount' = printedCount + 1
    /\ pc = "loop" => idx' \in {idx, idx + 1}
    /\ (pc = "loop" /\ pc' = "loop" /\ idx' = idx) => UNCHANGED batchVars

\* C10: always the counter is the number of writes, and every step keeps
\* the frame.
C10_OnlyCandidateTextChanges ==
    []C10_CounterIsWrites /\ [][C10_StepFrame]_vars

\* A run that wrote one candidate and left another alone
C10_Witness ==
    /\ pc = "done"
    /\ Len(written) = 1
    /\ Len(nodes) >= 2


(***************************************************************************)
(* C6.  evaluateVariable(variable, modeId), on a directory whose alias     *)
(* chain from the variable at modeId is acyclic and names only variables   *)
(* that exist, does not throw, returns, and returns the terminal value at  *)
(* the end of the chain, every hop read at the modeId of the first call.   *)
(***************************************************************************)
C6_ReturnsChainEnd ==
    (evPc # "idle" /\ Acyclic(evStart, evModeId)) =>
        /\ evPc # "threw"
        /\ evPc = "returned" => evResult = TerminalValue(evStart, evModeId)

\* C6: on an acyclic chain of existing variables the evaluation never
\* throws, returns the chain's terminal value, and does return.
C6_EvaluatesToTerminal ==
    /\ []C6_ReturnsChainEnd
    /\ (evPc = "call" /\ Acyclic(evStart, evModeId)) ~> (evPc = "returned")

\* A returned evaluation of the first variable aliasing the second aliasing
\* the third, whose own value is terminal
C6_Witness ==
    /\ evPc = "returned"
    /\ evStart.id = 1
    /\ isVariableAlias(ValueAt(evStart, evModeId))
    /\ evVariable.id = 3
    /\ evResult = ValueAt(localVariables[3], evModeId)

(***************************************************************************)
(* C7.  The resolver, asked for a color-only token (hex, rgba, r, g, b,    *)
(* a) on a value that is not an object or lacks one of the keys r, g, b,   *)
(* a, throws a not-a-color error; on a value with the four keys the        *)
(* conversion succeeds with r, g and b multiplied by 255 and a unchanged.  *)
(***************************************************************************)
IsColor(value) ==
    /\ value.kind = "object"
    /\ {"r", "g", "b", "a"} \subseteq DOMAIN value.fields

NotAColorErrors == {NotAnObjectError, NotRGBAError}

ColorTokenText(token, value) ==
    LET r == value.fields.r * 255
        g == value.fields.g * 255
        b == value.fields.b * 255
        a == value.fields.a
    IN CASE token = <<"r">> -> NatToString(r)
         [] token = <<"g">> -> NatToString(g)
         [] token = <<"b">> -> NatToString(b)
         [] token = <<"a">> -> NatToString(a)
         [] token = <<"h", "e", "x">> -> color2k_toHex(r, g, b, a)
         [] token = <<"r", "g", "b", "a">> -> color2k_rgba(r, g, b, a)

====
